---- MODULE Spec2Model ----
(***************************************************************************)
(* Air quality calculation and forecast engine of apollo14's               *)
(* python-service: AirQualityCalculator (air_quality_calculator.py) and    *)
(* ForecastService (forecast_service.py), with the two data-acquisition    *)
(* calls that feed them (tempo_client.py, weather_client.py).              *)
(*                                                                         *)
(* Numbers.  Concentrations are fixed-point integers in hundredths of the  *)
(* source's unit (12.1 is 1210).  Sub-indices, EPA-scale indices, weather  *)
(* readings and day numbers are integers as in the source.  The weather    *)
(* factor and the confidence are kept in tenths (0.5 is 5).                *)
(*                                                                         *)
(* Values.  A dictionary entry is a record [tag, v]:                       *)
(*   tag "missing" : the key is not in the dictionary                      *)
(*   tag "none"    : the key is there and its value is None                *)
(*   tag "num"     : a number, v                                           *)
(*   tag "bad"     : a non-empty string (truthy, and not comparable with   *)
(*                   a number)                                             *)
(***************************************************************************)
EXTENDS Integers, Sequences, FiniteSets, TLC

VARIABLES
    calc_in,     \* arguments of the calculate_aqi call: [tempo, ground, weather]
    calc_out,    \* what calculate_aqi returned (NoResult until it has run)
    sub_in,      \* arguments of a _calculate_pollutant_aqi evaluation
    sub_out,     \* its result (NoAqi until it has run)
    now,         \* the wall clock's calendar day, as a day number
    ticks,       \* midnights the wall clock has passed since the start
    hash_seed,   \* the interpreter's string-hash seed (fixed per process)
    pc,          \* where generate_forecast is: idle, day, date, done
    supplied,    \* whether the caller passed a truthy current_data
    current_data, \* the baseline generate_forecast works from
    started,     \* the calendar day on which generate_forecast was called
    days_ahead,  \* the loop variable i of generate_forecast
    day_local,   \* _generate_day_forecast's locals between its two clock reads
    forecast,    \* the list generate_forecast builds and returns
    passed,      \* the current_data argument as the caller passed it
    fetch,       \* a call of a data-acquisition client: position, response, result
    tables,      \* aqi_breakpoints of the module-level calculator object
    calls,       \* the calls of calculate_aqi in progress on that object
    rounding     \* how this build's floating point rounds an exact half

calc_vars == <<calc_in, calc_out, sub_in, sub_out>>

fc_vars == <<now, ticks, hash_seed, pc, supplied, current_data, started,
             days_ahead, day_local, forecast, passed>>

io_vars == <<fetch>>

obj_vars == <<tables, calls, rounding>>

vars == <<calc_in, calc_out, sub_in, sub_out, now, ticks, hash_seed, pc, supplied,
          current_data, started, days_ahead, day_local, forecast, passed, fetch,
          tables, calls, rounding>>

----------------------------------------------------------------------------
(* Values of dictionary entries *)

Missing == [tag |-> "missing", v |-> 0]

None_ == [tag |-> "none", v |-> 0]

Bad == [tag |-> "bad", v |-> 0]

Num(x) == [tag |-> "num", v |-> x]

IsNum(x) == x.tag = "num"

\* dict.get(key): a missing key reads as None
Get(x) == IF x.tag = "missing" THEN None_ ELSE x

\* dict.get(key, default): only a missing key reads as the default
GetOr(x, d) == IF x.tag = "missing" THEN Num(d) ELSE x

\* Python truthiness of a value: None and 0 are falsy, a non-empty string is truthy
Truthy(x) == \/ x.tag = "bad"
             \/ x.tag = "num" /\ x.v # 0

\* a comparison of x with a number raises TypeError unless x is a number
Raises(x) == x.tag \in {"none", "bad"}

Pollutants == {"no2", "o3", "hcho", "pm25", "pm10"}

----------------------------------------------------------------------------
(* AirQualityCalculator.__init__: the breakpoint tables, rows                *)
(* <<c_low, c_high, aqi_low, aqi_high>> with concentrations in hundredths.   *)

aqi_breakpoints ==
    [pm25 |-> << <<0, 1200, 0, 50>>,
                 <<1210, 3540, 51, 100>>,
                 <<3550, 5540, 101, 150>>,
                 <<5550, 15040, 151, 200>>,
                 <<15050, 25040, 201, 300>>,
                 <<25050, 50040, 301, 500>> >>,
     pm10 |-> << <<0, 5400, 0, 50>>,
                 <<5500, 15400, 51, 100>>,
                 <<15500, 25400, 101, 150>>,
                 <<25500, 35400, 151, 200>>,
                 <<35500, 42400, 201, 300>>,
                 <<42500, 60400, 301, 500>> >>,
     no2  |-> << <<0, 5300, 0, 50>>,
                 <<5400, 10000, 51, 100>>,
                 <<10100, 36000, 101, 150>>,
                 <<36100, 64900, 151, 200>>,
                 <<65000, 124900, 201, 300>>,
                 <<125000, 204900, 301, 500>> >>,
     o3   |-> << <<0, 5400, 0, 50>>,
                 <<5500, 7000, 51, 100>>,
                 <<7100, 8500, 101, 150>>,
                 <<8600, 10500, 151, 200>>,
                 <<10600, 20000, 201, 300>>,
                 <<20100, 50000, 301, 500>> >>]

Tabled == DOMAIN aqi_breakpoints

----------------------------------------------------------------------------
(* int(round(q)) for the rational q = num/den, den > 0, num >= 0.  Python's  *)
(* round goes to the nearest integer.  The source evaluates q in binary      *)
(* floating point, so when the exact q is a half (x.5) the float lands just  *)
(* below, on, or just above the half and the result is one of the two        *)
(* neighbours: tie = 0 takes the lower, tie = 1 the upper.                   *)

PyRound(num, den, tie) ==
    LET fl == num \div den
        rem == num % den
    IN  IF 2 * rem < den THEN fl
        ELSE IF 2 * rem > den THEN fl + 1
        ELSE fl + tie

\* linear interpolation within one row (lines 130-131)
Interpolate(row, concentration, tie) ==
    PyRound((row[4] - row[3]) * (concentration - row[1]), row[2] - row[1], tie) + row[3]

\* Matching with the upper bound of a bracket left out
Matching_open_top(breakpoints, concentration) ==
    {i \in DOMAIN breakpoints :
        breakpoints[i][1] <= concentration /\ concentration < breakpoints[i][2]}

\* the rows of a table whose bracket holds the concentration (line 128)
Matching(breakpoints, concentration) ==
    {i \in DOMAIN breakpoints :
        breakpoints[i][1] <= concentration /\ concentration <= breakpoints[i][2]}

Min(S) == CHOOSE x \in S : \A y \in S : x <= y

Max(S) == CHOOSE x \in S : \A y \in S : x >= y

\* _calculate_pollutant_aqi (lines 118-134): the first matching row decides
calculate_pollutant_aqi(pollutant, concentration, tie) ==
    IF pollutant \notin Tabled THEN 3
    ELSE LET breakpoints == aqi_breakpoints[pollutant]
             hits == Matching(breakpoints, concentration)
         IN  IF hits # {}
             THEN Interpolate(breakpoints[Min(hits)], concentration, tie)
             ELSE 500

----------------------------------------------------------------------------
(* Input bundles.  A bundle is a dictionary or nothing: given = FALSE is     *)
(* None or {} (both falsy).  A given bundle always holds some key (such as   *)
(* 'timestamp'), so it is truthy even when every pollutant entry is None.    *)
(* source = "" is a missing, None or empty 'source' entry.  Both bundles     *)
(* may carry entries the calculator never reads (a satellite pm25, a ground  *)
(* hcho).                                                                    *)

NoTempo == [given |-> FALSE, no2 |-> None_, o3 |-> None_, hcho |-> None_,
            pm25 |-> None_, source |-> ""]

NoGround == [given |-> FALSE, pm25 |-> None_, pm10 |-> None_, no2 |-> None_,
             o3 |-> None_, hcho |-> None_, source |-> ""]

NoWeather == [given |-> FALSE, wind_speed |-> Missing, temperature |-> Missing,
              humidity |-> Missing, pressure |-> Missing]

\* extract_pollutants with a ground no2/o3 reading overriding the satellite's
extract_ground_first(tempo_data, ground_data) ==
    LET t_no2 == IF tempo_data.given THEN Get(tempo_data.no2) ELSE None_
        t_o3  == IF tempo_data.given THEN Get(tempo_data.o3) ELSE None_
        t_hcho == IF tempo_data.given THEN Get(tempo_data.hcho) ELSE None_
    IN  IF ground_data.given
        THEN [no2  |-> IF Truthy(Get(ground_data.no2)) THEN Get(ground_data.no2) ELSE t_no2,
              o3   |-> IF Truthy(Get(ground_data.o3)) THEN Get(ground_data.o3) ELSE t_o3,
              hcho |-> t_hcho,
              pm25 |-> Get(ground_data.pm25),
              pm10 |-> Get(ground_data.pm10)]
        ELSE [no2 |-> t_no2, o3 |-> t_o3, hcho |-> t_hcho,
              pm25 |-> None_, pm10 |-> None_]

\* _extract_pollutants (lines 92-116).  A key the code never sets reads as
\* None through pollutants.get / the None test of line 62.
extract_pollutants(tempo_data, ground_data) ==
    LET t_no2 == IF tempo_data.given THEN Get(tempo_data.no2) ELSE None_
        t_o3  == IF tempo_data.given THEN Get(tempo_data.o3) ELSE None_
        t_hcho == IF tempo_data.given THEN Get(tempo_data.hcho) ELSE None_
    IN  IF ground_data.given
        THEN [no2  |-> IF ~Truthy(t_no2) THEN Get(ground_data.no2) ELSE t_no2,
              o3   |-> IF ~Truthy(t_o3) THEN Get(ground_data.o3) ELSE t_o3,
              hcho |-> t_hcho,
              pm25 |-> Get(ground_data.pm25),
              pm10 |-> Get(ground_data.pm10)]
        ELSE [no2 |-> t_no2, o3 |-> t_o3, hcho |-> t_hcho,
              pm25 |-> None_, pm10 |-> None_]

\* the weather readings as the corrections read them (lines 146, 153, 160, 167)
wind_speed_of(weather_data) == GetOr(weather_data.wind_speed, 5)

temperature_of(weather_data) == GetOr(weather_data.temperature, 20)

humidity_of(weather_data) == GetOr(weather_data.humidity, 50)

\* pressure_of with a missing reading taken as 0
pressure_of_default_zero(weather_data) == GetOr(weather_data.pressure, 0)

pressure_of(weather_data) == GetOr(weather_data.pressure, 1013)

\* weather_adjustment with the two wind corrections exchanged
weather_adjustment_wind_swapped(weather_data) ==
    LET wind_speed == wind_speed_of(weather_data).v
        temperature == temperature_of(weather_data).v
        humidity == humidity_of(weather_data).v
        pressure == pressure_of(weather_data).v
    IN  (IF wind_speed > 10 THEN 15 ELSE IF wind_speed < 2 THEN -10 ELSE 0)
      + (IF temperature > 30 THEN 10 ELSE IF temperature < 5 THEN -5 ELSE 0)
      + (IF humidity > 80 THEN 5 ELSE IF humidity < 30 THEN -5 ELSE 0)
      + (IF pressure < 1000 THEN 10 ELSE 0)

\* sum of the additive corrections of lines 147-169, on numeric readings
weather_adjustment(weather_data) ==
    LET wind_speed == wind_speed_of(weather_data).v
        temperature == temperature_of(weather_data).v
        humidity == humidity_of(weather_data).v
        pressure == pressure_of(weather_data).v
    IN  (IF wind_speed > 10 THEN -10 ELSE IF wind_speed < 2 THEN 15 ELSE 0)
      + (IF temperature > 30 THEN 10 ELSE IF temperature < 5 THEN -5 ELSE 0)
      + (IF humidity > 80 THEN 5 ELSE IF humidity < 30 THEN -5 ELSE 0)
      + (IF pressure < 1000 THEN 10 ELSE 0)

\* _apply_weather_corrections (lines 136-171), on numeric readings
apply_weather_corrections(aqi, weather_data) ==
    IF ~weather_data.given THEN aqi
    ELSE Max({0, Min({500, aqi + weather_adjustment(weather_data)})})

\* scale_aqi_to_5 as a division into steps of 50
scale_aqi_by_division(aqi) == (aqi + 49) \div 50

\* scale_aqi_to_5 with the steps' upper bounds left out
scale_aqi_strict(aqi) ==
    IF aqi < 50 THEN 1
    ELSE IF aqi < 100 THEN 2
    ELSE IF aqi < 150 THEN 3
    ELSE IF aqi < 200 THEN 4
    ELSE 5

\* _scale_aqi_to_5 (lines 173-186)
scale_aqi_to_5(aqi) ==
    IF aqi <= 50 THEN 1
    ELSE IF aqi <= 100 THEN 2
    ELSE IF aqi <= 150 THEN 3
    ELSE IF aqi <= 200 THEN 4
    ELSE 5

\* get_data_sources naming 'default' when no bundle names a source
get_data_sources_default_when_none(tempo_data, ground_data) ==
    LET sources == (IF tempo_data.given /\ tempo_data.source # ""
                    THEN <<tempo_data.source>> ELSE <<>>)
                \o (IF ground_data.given /\ ground_data.source # ""
                    THEN <<ground_data.source>> ELSE <<>>)
    IN  IF sources # <<>> THEN sources ELSE <<"default">>

\* _get_data_sources (lines 188-201)
get_data_sources(tempo_data, ground_data) ==
    LET sources == (IF tempo_data.given /\ tempo_data.source # ""
                    THEN <<tempo_data.source>> ELSE <<>>)
                \o (IF ground_data.given /\ ground_data.source # ""
                    THEN <<ground_data.source>> ELSE <<>>)
    IN  IF sources # <<>> THEN sources ELSE <<"mock_data">>

\* calculate_weather_factor with a pressure term, as the corrections have one
weather_factor_with_pressure(weather_data) ==
    IF ~weather_data.given THEN 5
    ELSE LET wind_speed == wind_speed_of(weather_data).v
             temperature == temperature_of(weather_data).v
             humidity == humidity_of(weather_data).v
             pressure == pressure_of(weather_data).v
             factor == 5
                 + (IF wind_speed > 10 THEN -2 ELSE IF wind_speed < 2 THEN 2 ELSE 0)
                 + (IF temperature > 30 THEN 1 ELSE IF temperature < 5 THEN -1 ELSE 0)
                 + (IF humidity > 80 THEN 1 ELSE IF humidity < 30 THEN -1 ELSE 0)
                 + (IF pressure < 1000 THEN 1 ELSE 0)
         IN  Max({0, Min({10, factor})})

\* _calculate_weather_factor (lines 203-233), in tenths, on numeric readings
calculate_weather_factor(weather_data) ==
    IF ~weather_data.given THEN 5
    ELSE LET wind_speed == wind_speed_of(weather_data).v
             temperature == temperature_of(weather_data).v
             humidity == humidity_of(weather_data).v
             factor == 5
                 + (IF wind_speed > 10 THEN -2 ELSE IF wind_speed < 2 THEN 2 ELSE 0)
                 + (IF temperature > 30 THEN 1 ELSE IF temperature < 5 THEN -1 ELSE 0)
                 + (IF humidity > 80 THEN 1 ELSE IF humidity < 30 THEN -1 ELSE 0)
         IN  Max({0, Min({10, factor})})

EmptyAqi == [p \in {} |-> 0]

\* _get_default_aqi (lines 235-249); the timestamp is left out
get_default_aqi ==
    [aqi |-> 3,
     no2 |-> None_, o3 |-> None_, pm25 |-> None_, pm10 |-> None_,
     sources |-> <<"default">>, individual_aqi |-> EmptyAqi, weather_factor |-> 5]

\* scored_pollutants with a zero concentration scored too
scored_with_zero(pollutants) ==
    {p \in Pollutants : IsNum(pollutants[p]) /\ pollutants[p].v >= 0}

\* line 62: the pollutants that get a sub-index
scored_pollutants(pollutants) ==
    {p \in Pollutants : IsNum(pollutants[p]) /\ pollutants[p].v > 0}

\* line 62: `concentration > 0` raises TypeError on a string
scoring_raises(pollutants) == \E p \in Pollutants : pollutants[p].tag = "bad"

\* lines 147-168 and 214-230: a comparison raises TypeError on None or a string
weather_raises(weather_data) ==
    /\ weather_data.given
    /\ \/ Raises(wind_speed_of(weather_data))
       \/ Raises(temperature_of(weather_data))
       \/ Raises(humidity_of(weather_data))
       \/ Raises(pressure_of(weather_data))

\* overall_of with the default taken on the EPA scale (the middle of band 3)
overall_default_epa(aqi_values) ==
    IF DOMAIN aqi_values # {}
    THEN Max({aqi_values[p] : p \in DOMAIN aqi_values})
    ELSE 125

\* line 66: the highest sub-index, 3 when there is none
overall_of(aqi_values) ==
    IF DOMAIN aqi_values # {}
    THEN Max({aqi_values[p] : p \in DOMAIN aqi_values})
    ELSE 3

(* What a call of calculate_aqi leaves: ret is the returned dictionary (the  *)
(* timestamp left out), path the return statement that produced it, and      *)
(* pollutants, overall_aqi and weather_corrected_aqi the locals of lines 57, *)
(* 66 and 69 (NotSet when the call never assigned them).                     *)

NotSet == 0 - 1

\* the try block of calculate_aqi (lines 56-86) when nothing raises
computed_aqi(tempo_data, ground_data, weather_data, tie) ==
    LET pollutants == extract_pollutants(tempo_data, ground_data)
        aqi_values == [p \in scored_pollutants(pollutants) |->
                          calculate_pollutant_aqi(p, pollutants[p].v, tie)]
        overall_aqi == overall_of(aqi_values)
        weather_corrected_aqi == apply_weather_corrections(overall_aqi, weather_data)
    IN  [path |-> "computed",
         ret |-> [aqi |-> scale_aqi_to_5(weather_corrected_aqi),
                  no2 |-> pollutants.no2, o3 |-> pollutants.o3,
                  pm25 |-> pollutants.pm25, pm10 |-> pollutants.pm10,
                  sources |-> get_data_sources(tempo_data, ground_data),
                  individual_aqi |-> aqi_values,
                  weather_factor |-> calculate_weather_factor(weather_data)],
         pollutants |-> pollutants,
         overall_aqi |-> overall_aqi,
         weather_corrected_aqi |-> weather_corrected_aqi]

\* calculate_aqi with the weather steps outside the try block's reach: a
\* None or string reading is taken for its number field instead of raising
calculate_aqi_weather_unguarded(tempo_data, ground_data, weather_data, tie) ==
    IF scoring_raises(extract_pollutants(tempo_data, ground_data))
    THEN [path |-> "default",
          ret |-> get_default_aqi,
          pollutants |-> extract_pollutants(tempo_data, ground_data),
          overall_aqi |-> NotSet,
          weather_corrected_aqi |-> NotSet]
    ELSE computed_aqi(tempo_data, ground_data, weather_data, tie)

\* calculate_aqi (lines 49-90): any exception of the try block is caught
\* (line 88) and the default result returned (line 90)
calculate_aqi(tempo_data, ground_data, weather_data, tie) ==
    IF \/ scoring_raises(extract_pollutants(tempo_data, ground_data))
       \/ weather_raises(weather_data)
    THEN [path |-> "default",
          ret |-> get_default_aqi,
          pollutants |-> extract_pollutants(tempo_data, ground_data),
          overall_aqi |-> NotSet,
          weather_corrected_aqi |-> NotSet]
    ELSE computed_aqi(tempo_data, ground_data, weather_data, tie)

----------------------------------------------------------------------------
(* The calls checked.  The pollutant sweep varies both bundles entry by      *)
(* entry under a few weathers; the weather sweep varies every weather entry  *)
(* under a few bundles whose overall index sits at 3 (nothing scored), 0,    *)
(* 50, 100 and 500, where corrections cross a scale step or hit a clamp.     *)

TempoSweep ==
    {NoTempo} \cup
    [given : {TRUE},
     no2 : {None_, Num(0), Num(5300), Bad},
     o3 : {None_, Num(6000)},
     hcho : {None_, Num(500)},
     pm25 : {None_, Num(1500)},
     source : {"", "TEMPO_MOCK"}]

GroundSweep ==
    {NoGround} \cup
    [given : {TRUE},
     pm25 : {None_, Num(0), Num(-100), Num(3540)},
     pm10 : {None_, Num(70000)},
     no2 : {None_, Num(0), Num(10000)},
     o3 : {None_, Num(4000)},
     hcho : {None_, Num(900)},
     source : {"", "OpenAQ"}]

DefaultWeather == [given |-> TRUE, wind_speed |-> Num(5), temperature |-> Num(20),
                   humidity |-> Num(50), pressure |-> Num(1013)]

StagnantWeather == [given |-> TRUE, wind_speed |-> Num(1), temperature |-> Num(31),
                    humidity |-> Num(81), pressure |-> Num(999)]

FewWeathers == {NoWeather, DefaultWeather, StagnantWeather}

WeatherSweep ==
    {NoWeather} \cup
    [given : {TRUE},
     wind_speed : {Missing, Num(1), Num(5), Num(11)},
     temperature : {Missing, Num(4), Num(31)},
     humidity : {Missing, Num(29), Num(81), None_},
     pressure : {Missing, Num(999), Bad}]

TempoOf(no2) == [given |-> TRUE, no2 |-> no2, o3 |-> None_, hcho |-> None_,
                 pm25 |-> None_, source |-> "TEMPO_MOCK"]

GroundOf(pm25, pm10) == [given |-> TRUE, pm25 |-> pm25, pm10 |-> pm10, no2 |-> None_,
                         o3 |-> None_, hcho |-> None_, source |-> "OpenAQ"]

FewBundles ==
    { <<NoTempo, NoGround>>,
      <<TempoOf(Num(1)), NoGround>>,
      <<TempoOf(Num(5300)), NoGround>>,
      <<TempoOf(Num(5300)), GroundOf(Num(3540), None_)>>,
      <<NoTempo, GroundOf(None_, Num(70000))>> }

\* bundles whose source id is one of the ids the calculator itself gives out
OwnIdBundles ==
    { <<[TempoOf(Num(5300)) EXCEPT !.source = "default"], NoGround>>,
      <<NoTempo, [GroundOf(Num(3540), None_) EXCEPT !.source = "default"]>>,
      <<[TempoOf(Num(5300)) EXCEPT !.source = "mock_data"],
        [GroundOf(Num(3540), None_) EXCEPT !.source = "default"]>> }

CalcInputs ==
    {[tempo |-> t, ground |-> g, weather |-> w] :
        t \in TempoSweep, g \in GroundSweep, w \in FewWeathers}
    \cup
    {[tempo |-> b[1], ground |-> b[2], weather |-> w] :
        b \in FewBundles, w \in WeatherSweep}
    \cup
    {[tempo |-> b[1], ground |-> b[2], weather |-> w] :
        b \in OwnIdBundles, w \in FewWeathers}

NoResult == [path |-> "pending"]

Returned == calc_out.path # "pending"

NoAqi == [done |-> FALSE, aqi |-> 0]

----------------------------------------------------------------------------
(* Concentrations handed to _calculate_pollutant_aqi directly: every bound   *)
(* of every row of the pollutant's table, the points just beside a bound,    *)
(* and a grid over the table's range and beyond it.                          *)

GridStep == 777

MaxGrid == 270

RowBounds(pollutant) ==
    UNION {{aqi_breakpoints[pollutant][i][1], aqi_breakpoints[pollutant][i][2]} :
              i \in DOMAIN aqi_breakpoints[pollutant]}

SubConcentrations(pollutant) ==
    IF pollutant \notin Tabled THEN {k * GridStep : k \in 0..MaxGrid}
    ELSE (RowBounds(pollutant)
          \cup {c + 5 : c \in RowBounds(pollutant)}
          \cup {k * GridStep : k \in 0..MaxGrid})

SubInputs ==
    {[pollutant |-> p, concentration |-> c] :
        p \in Pollutants, c \in UNION {SubConcentrations(q) : q \in Pollutants}}

----------------------------------------------------------------------------
(* ForecastService.  Calendar days are day numbers: day 0 is 1 January of a  *)
(* 365-day year, and strftime('%Y-%m-%d') of now + timedelta(days = k) is    *)
(* the day numbered now + k, so consecutive numbers are consecutive dates.   *)

MonthEnds == <<31, 59, 90, 120, 151, 181, 212, 243, 273, 304, 334, 365>>

\* the month (1..12) of a day number
Month(day) == Min({m \in 1..12 : day % 365 < MonthEnds[m]})

(* hash(str(k)): Python salts string hashes per process, so the value is an  *)
(* unknown function of k that stays the same for the life of the process.    *)
(* The model draws it from a family indexed by hash_seed; only its residues  *)
(* modulo 3, 5, 10, 15, 20, 25 and 30 are read, and values in 0..59 give     *)
(* every one of them.                                                        *)

MaxSeed == 3

HashSeeds == 0..MaxSeed

Hash(seed, k) == (7 * k + seed * (k * k + 1) + 11 * seed * seed) % 60

\* _get_weather_conditions (lines 226-231)
get_weather_conditions(seed, d) ==
    <<"clear", "partly cloudy", "cloudy", "overcast", "rainy">>[(Hash(seed, d) % 5) + 1]

\* _get_weather_forecast (lines 91-104)
get_weather_forecast(seed, d) ==
    [temperature |-> 20 + (Hash(seed, d) % 15) - 7,
     humidity |-> 50 + (Hash(seed, d + 1) % 30) - 15,
     wind_speed |-> 5 + (Hash(seed, d + 2) % 10) - 5,
     pressure |-> 1013 + (Hash(seed, d + 3) % 20) - 10,
     conditions |-> get_weather_conditions(seed, d)]

\* _calculate_weather_impact (lines 156-183)
calculate_weather_impact(weather_forecast) ==
    LET temp == weather_forecast.temperature
        wind_speed == weather_forecast.wind_speed
        humidity == weather_forecast.humidity
        impact == (IF temp > 30 THEN 1 ELSE IF temp < 5 THEN -1 ELSE 0)
                + (IF wind_speed > 10 THEN -1 ELSE IF wind_speed < 2 THEN 1 ELSE 0)
                + (IF humidity > 80 THEN 1 ELSE IF humidity < 30 THEN -1 ELSE 0)
    IN  Max({-2, Min({2, impact})})

\* _calculate_seasonal_factor (lines 185-200); today is what datetime.now() gives
calculate_seasonal_factor(today, d) ==
    LET month == Month(today + d)
    IN  IF month \in {6, 7, 8} THEN 1
        ELSE IF month \in {12, 1, 2} THEN 1
        ELSE -1

\* line 121
random_variation(seed, d) == (Hash(seed, d) % 3) - 1

\* _calculate_forecast_aqi (lines 106-125), on a numeric base_aqi
calculate_forecast_aqi(base_aqi, weather_forecast, seed, today, d) ==
    LET forecast_aqi == base_aqi + calculate_weather_impact(weather_forecast)
                        + calculate_seasonal_factor(today, d) + random_variation(seed, d)
    IN  Max({1, Min({5, forecast_aqi})})

(* Pollutant levels of a forecast are exact rationals over LevelDen: a level *)
(* x of the source is the integer x * LevelDen.  The source computes them in *)
(* floating point, within rounding error of these values.                    *)

LevelDen == 100 * 100000

\* _generate_pollutant_forecasts (lines 127-154), base levels in hundredths:
\*   1 + (t/20 - 1) * 0.2 = (80 + t)/100     1 - (w/5 - 1) * 0.1 = (55 - w)/50
\*   1 + (t/20 - 1) * 0.3 = (140 + 3t)/200   1 + (h/50 - 1) * 0.1 = (450 + h)/500
\*   1 - (w/5 - 1) * 0.2 = (30 - w)/25
generate_pollutant_forecasts(base_no2, base_o3, base_pm25, weather_forecast) ==
    LET t == weather_forecast.temperature
        w == weather_forecast.wind_speed
        h == weather_forecast.humidity
    IN  [no2 |-> base_no2 * (80 + t) * (55 - w) * 20,
         o3 |-> base_o3 * (140 + 3 * t) * (450 + h),
         pm25 |-> base_pm25 * (30 - w) * (450 + h) * 8]

\* _calculate_confidence (lines 202-211), in tenths
calculate_confidence(d) == Max({3, Min({10, 9 - (d - 1)})})

\* _calculate_trend (lines 213-224): forecast_aqi against current_aqi +- 0.5
calculate_trend(current_aqi, forecast_aqi) ==
    IF 2 * forecast_aqi > 2 * current_aqi + 1 THEN "worsening"
    ELSE IF 2 * forecast_aqi < 2 * current_aqi - 1 THEN "improving"
    ELSE "stable"

\* the readings of current_data with their defaults (lines 112, 136-138, 217)
base_aqi_of(cd) == GetOr(cd.aqi, 3)

base_no2_of(cd) == GetOr(cd.no2, 2500)

base_o3_of(cd) == GetOr(cd.o3, 6000)

base_pm25_of(cd) == GetOr(cd.pm25, 2000)

\* line 123 raises TypeError on a base index that is None or a string, and
\* lines 146-152 on a base level that is None or a string
day_raises(cd) ==
    \/ Raises(base_aqi_of(cd))
    \/ Raises(base_no2_of(cd))
    \/ Raises(base_o3_of(cd))
    \/ Raises(base_pm25_of(cd))

\* get_default_day_forecast with the confidence decaying as on a computed day
default_day_with_decay(today, d) ==
    [path |-> "default",
     date |-> today + d,
     aqi_value |-> 3,
     no2_level |-> 25 * LevelDen,
     o3_level |-> 60 * LevelDen,
     pm25_level |-> 20 * LevelDen,
     weather |-> [temperature |-> 20, humidity |-> 50, wind_speed |-> 5,
                  pressure |-> 1013, conditions |-> "partly cloudy"],
     confidence |-> calculate_confidence(d),
     trend |-> "stable"]

\* _get_default_day_forecast (lines 242-261); today is what datetime.now() gives
get_default_day_forecast(today, d) ==
    [path |-> "default",
     date |-> today + d,
     aqi_value |-> 3,
     no2_level |-> 25 * LevelDen,
     o3_level |-> 60 * LevelDen,
     pm25_level |-> 20 * LevelDen,
     weather |-> [temperature |-> 20, humidity |-> 50, wind_speed |-> 5,
                  pressure |-> 1013, conditions |-> "partly cloudy"],
     confidence |-> 5,
     trend |-> "stable"]

\* _get_default_forecast (lines 233-240).  Only the handler of line 37 calls
\* it, and nothing reaches that handler: _get_current_data raises nothing and
\* _generate_day_forecast catches every exception of a day itself.
get_default_forecast(today) == [i \in 1..7 |-> get_default_day_forecast(today, i)]

\* get_current_data taking the baseline from the Index Calculator, called
\* with no data
current_data_from_calculator ==
    LET result == calculate_aqi(NoTempo, NoGround, NoWeather, 0).ret
    IN  [given |-> TRUE, aqi |-> Num(result.aqi), no2 |-> result.no2,
         o3 |-> result.o3, pm25 |-> result.pm25]

\* _get_current_data (lines 41-53)
get_current_data ==
    [given |-> TRUE, aqi |-> Num(3), no2 |-> Num(2500), o3 |-> Num(6000),
     pm25 |-> Num(2000)]

NotSupplied == [given |-> FALSE, aqi |-> Missing, no2 |-> Missing, o3 |-> Missing,
                pm25 |-> Missing]

\* what calculate_aqi's result looks like as current_data: every key is
\* there, a pollutant without a reading is None
CurrentInputs ==
    {NotSupplied} \cup
    {[given |-> TRUE, aqi |-> a, no2 |-> l[1], o3 |-> l[2], pm25 |-> l[3]] :
        a \in {Missing, None_, Num(1), Num(3), Num(5)},
        l \in { <<Num(5300), Num(6000), Num(3540)>>,
                <<None_, Num(6000), Num(3540)>>,
                <<Num(5300), None_, Num(3540)>>,
                <<Num(5300), Num(6000), None_>>,
                <<Missing, Missing, Missing>> }}

StartDays == {58, 148, 300}

MaxTicks == 1

NoLocal == [raised |-> FALSE, aqi_value |-> 0]

NoFetch == [pc |-> "idle"]

----------------------------------------------------------------------------
(* generate_forecast, step by step.  Each day reads the wall clock twice:    *)
(* for the seasonal factor (line 190) and for the date (line 77, or line 247 *)
(* on the fallback path); midnight may pass between any two reads.           *)

\* midnight passes while a forecast is being generated
Tick ==
    /\ pc \in {"day", "date"}
    /\ ticks < MaxTicks
    /\ now' = now + 1
    /\ ticks' = ticks + 1
    /\ UNCHANGED <<calc_vars, hash_seed, pc, supplied, current_data, started,
                   days_ahead, day_local, forecast, passed, io_vars, obj_vars>>

\* generate_forecast is called (lines 21-29)
GenerateForecast ==
    /\ pc = "idle"
    /\ \E cd \in CurrentInputs :
          /\ passed' = cd
          /\ supplied' = cd.given
          /\ current_data' = IF cd.given THEN cd ELSE get_current_data
    /\ started' = now
    /\ forecast' = <<>>
    /\ days_ahead' = 1
    /\ pc' = "day"
    /\ UNCHANGED <<calc_vars, now, ticks, hash_seed, day_local, io_vars, obj_vars>>

\* _generate_day_forecast up to the dictionary it returns (lines 60-74)
DayForecast ==
    /\ pc = "day"
    /\ day_local' =
          IF day_raises(current_data) THEN [raised |-> TRUE, aqi_value |-> 0]
          ELSE [raised |-> FALSE,
                aqi_value |-> calculate_forecast_aqi(
                    base_aqi_of(current_data).v,
                    get_weather_forecast(hash_seed, days_ahead),
                    hash_seed, now, days_ahead)]
    /\ pc' = "date"
    /\ UNCHANGED <<calc_vars, now, ticks, hash_seed, supplied, current_data, started,
                   days_ahead, forecast, passed, io_vars, obj_vars>>

\* the dictionary _generate_day_forecast returns (lines 76-85, or 89 after an
\* exception)
day_entry(cd, seed, today, d, local) ==
    IF local.raised THEN get_default_day_forecast(today, d)
    ELSE LET weather_forecast == get_weather_forecast(seed, d)
             pollutant_forecasts == generate_pollutant_forecasts(
                 base_no2_of(cd).v, base_o3_of(cd).v, base_pm25_of(cd).v,
                 weather_forecast)
         IN  [path |-> "computed",
              date |-> today + d,
              aqi_value |-> local.aqi_value,
              no2_level |-> pollutant_forecasts.no2,
              o3_level |-> pollutant_forecasts.o3,
              pm25_level |-> pollutant_forecasts.pm25,
              weather |-> weather_forecast,
              confidence |-> calculate_confidence(d),
              trend |-> calculate_trend(base_aqi_of(cd).v, local.aqi_value)]

\* the day's dictionary is built and appended (lines 76-85 and 33); after the
\* seventh the list is returned (line 35)
AppendDay ==
    /\ pc = "date"
    /\ forecast' = Append(forecast,
                          day_entry(current_data, hash_seed, now, days_ahead, day_local))
    /\ day_local' = NoLocal
    /\ IF days_ahead < 7
       THEN days_ahead' = days_ahead + 1 /\ pc' = "day"
       ELSE days_ahead' = days_ahead /\ pc' = "done"
    /\ UNCHANGED <<calc_vars, now, ticks, hash_seed, supplied, current_data, started,
                   passed, io_vars, obj_vars>>

----------------------------------------------------------------------------
(* The data-acquisition clients: TEMPOClient.get_ground_measurements         *)
(* (tempo_client.py) and WeatherClient.get_current_weather                   *)
(* (weather_client.py).  What the network answers is an input: the request   *)
(* raises (a timeout, a connection error), or a response arrives with a      *)
(* status code and a body.                                                   *)

\* the exceptions the request and the handling of a response raise
Exceptions == {"TimeoutException", "ConnectError", "JSONDecodeError", "KeyError",
               "TypeError", "AttributeError", "IndexError"}

\* caught with only the errors of the request itself handled
caught_request_errors_only(exception) ==
    exception \in {"TimeoutException", "ConnectError"}

\* `except Exception` (tempo_client.py line 66, weather_client.py line 45)
caught(exception) == exception \in Exceptions

\* str(x) of a coordinate as a key of the hash family, apart from the keys of
\* the day offsets
CoordKey(x) == 10000 + x

Abs(x) == IF x < 0 THEN 0 - x ELSE x

RECURSIVE SeqSum(_)
SeqSum(values) == IF values = <<>> THEN 0 ELSE Head(values) + SeqSum(Tail(values))

\* _get_mock_ground_data (tempo_client.py lines 134-145), in hundredths
get_mock_ground_data(seed, latitude, longitude) ==
    [given |-> TRUE,
     pm25 |-> Num(100 * (15 + (Hash(seed, CoordKey(latitude)) % 20))),
     pm10 |-> Num(100 * (25 + (Hash(seed, CoordKey(longitude)) % 30))),
     no2 |-> Num(100 * (18 + (Hash(seed, CoordKey(latitude + longitude)) % 15))),
     o3 |-> Num(100 * (45 + (Hash(seed, CoordKey(latitude * longitude)) % 25))),
     hcho |-> Missing,
     source |-> "GROUND_MOCK"]

\* the values an OpenAQ body holds for a parameter, in the order they come
RECURSIVE values_of(_, _)
values_of(results, parameter) ==
    IF results = <<>> THEN <<>>
    ELSE (IF Head(results).parameter = parameter
          THEN <<Head(results).value.v>> ELSE <<>>)
         \o values_of(Tail(results), parameter)

\* what _process_openaq_data raises on a parsed body, "" when nothing: the
\* `in` test of line 153 on None, a measurement without 'parameter' or
\* 'value' (lines 157-158), the sum of line 167 over a value that is not a
\* number
openaq_exception(data) ==
    IF data.json = "null" THEN "TypeError"
    ELSE IF data.json = "list" THEN ""
    ELSE IF \E i \in DOMAIN data.results :
                \/ data.results[i].parameter = "absent"
                \/ data.results[i].value = Missing
         THEN "KeyError"
    ELSE IF \E i \in DOMAIN data.results : ~IsNum(data.results[i].value)
         THEN "TypeError"
    ELSE ""

\* the average of line 167 for one parameter; the values of the bodies
\* checked keep it a whole number of hundredths
openaq_average(results, parameter) ==
    LET values == values_of(results, parameter)
    IN  IF values = <<>> THEN Missing
        ELSE Num(SeqSum(values) \div Len(values))

\* _process_openaq_data (tempo_client.py lines 147-172) when nothing raises
process_openaq_data(data) ==
    LET results == IF data.json = "dict" THEN data.results ELSE <<>>
    IN  [given |-> TRUE,
         pm25 |-> openaq_average(results, "pm25"),
         pm10 |-> openaq_average(results, "pm10"),
         no2 |-> openaq_average(results, "no2"),
         o3 |-> openaq_average(results, "o3"),
         hcho |-> Missing,
         source |-> "OpenAQ"]

\* _get_mock_weather_data (weather_client.py lines 109-137); hour is
\* datetime.now().hour.  Latitudes and hours checked are even, so that the
\* temperature is a whole number of degrees.
get_mock_weather_data(seed, latitude, longitude, hour) ==
    [given |-> TRUE,
     temperature |-> Num(20 - (Abs(latitude) \div 2) + ((hour - 12) \div 2)
                         + (Hash(seed, CoordKey(latitude)) % 10) - 5),
     humidity |-> Num(Min({100, Max({0, 50 + (Hash(seed, CoordKey(longitude)) % 30)
                                        + (hour % 10)})})),
     wind_speed |-> Num(5 + (Hash(seed, CoordKey(latitude + longitude)) % 15)),
     pressure |-> Num(1013 + (Hash(seed, CoordKey(longitude)) % 20) - 10),
     source |-> "WEATHER_MOCK"]

\* what _process_weather_data raises on a parsed body, "" when nothing:
\* data.get on a body that is no dictionary (line 168), [0] of an empty
\* 'weather' list (line 170), main.get on a 'main' that is null (line 173)
weather_exception(data) ==
    IF data.json \in {"null", "list"} THEN "AttributeError"
    ELSE IF data.weather = "empty" THEN "IndexError"
    ELSE IF data.main.tag = "null" THEN "AttributeError"
    ELSE ""

\* _process_weather_data (weather_client.py lines 164-182) when nothing raises
process_weather_data(data) ==
    [given |-> TRUE,
     temperature |-> GetOr(data.main.temp, 0),
     humidity |-> GetOr(data.main.humidity, 0),
     wind_speed |-> GetOr(data.wind_speed, 0),
     pressure |-> GetOr(data.main.pressure, 0),
     source |-> "OpenWeatherMap"]

\* the bundle the client falls back to
mock_of(f, seed) ==
    IF f.client = "ground"
    THEN get_mock_ground_data(seed, f.latitude, f.longitude)
    ELSE get_mock_weather_data(seed, f.latitude, f.longitude, f.hour)

\* The calls checked

Latitudes == {0 - 34, 40}

Longitudes == {0 - 74, 2}

Hours == {6, 18}

Measurements ==
    [parameter : {"pm25", "no2", "absent"},
     value : {Num(1000), Num(3000), None_, Missing}]

NoBody == [json |-> "none"]

GroundBodies ==
    {[json |-> j, results |-> <<>>] : j \in {"malformed", "null", "list", "dict"}}
    \cup {[json |-> "dict", results |-> <<m>>] : m \in Measurements}
    \cup {[json |-> "dict", results |-> <<m1, m2>>] : m1, m2 \in Measurements}

AbsentMain == [tag |-> "absent", temp |-> Missing, humidity |-> Missing,
               pressure |-> Missing]

NullMain == [tag |-> "null", temp |-> Missing, humidity |-> Missing,
             pressure |-> Missing]

MainParts ==
    {AbsentMain, NullMain}
    \cup [tag : {"dict"}, temp : {Missing, Num(31)}, humidity : {Num(85), None_},
          pressure : {Num(999)}]

WeatherBodies ==
    {[json |-> j, main |-> AbsentMain, wind_speed |-> Missing, weather |-> "absent"] :
        j \in {"malformed", "null", "list"}}
    \cup [json : {"dict"}, main : MainParts, wind_speed : {Missing, Num(1), Num(12)},
          weather : {"absent", "empty", "one"}]

\* what the network may answer to the request of a client
Answers(client) ==
    {[raises |-> e, status |-> 0, body |-> NoBody] :
        e \in {"TimeoutException", "ConnectError"}}
    \cup {[raises |-> "", status |-> c, body |-> NoBody] : c \in {404, 500}}
    \cup {[raises |-> "", status |-> 200, body |-> b] :
            b \in IF client = "ground" THEN GroundBodies ELSE WeatherBodies}

NoAnswer == [raises |-> "", status |-> 0, body |-> NoBody]

NoBundle == [given |-> FALSE]

\* get_ground_measurements or get_current_weather is called (tempo_client.py
\* line 46, weather_client.py lines 39-43); a weather client without an API
\* key goes for the mock at once
FetchCall ==
    /\ fetch.pc = "idle"
    /\ \E client \in {"ground", "weather"}, latitude \in Latitudes,
          longitude \in Longitudes, hour \in Hours, api_key \in BOOLEAN :
          /\ client = "ground" => api_key
          /\ fetch' = [pc |-> IF api_key THEN "get" ELSE "mock",
                       client |-> client, latitude |-> latitude,
                       longitude |-> longitude, hour |-> hour, api_key |-> api_key,
                       response |-> NoAnswer, exception |-> "",
                       kind |-> "pending", result |-> NoBundle]
    /\ UNCHANGED <<calc_vars, fc_vars, obj_vars>>

\* the request returns or raises (tempo_client.py lines 48-57,
\* weather_client.py lines 67-77)
FetchGet ==
    /\ fetch.pc = "get"
    /\ \E answer \in Answers(fetch.client) :
          fetch' = IF answer.raises # ""
                   THEN [fetch EXCEPT !.pc = "except", !.exception = answer.raises]
                   ELSE [fetch EXCEPT !.pc = "status", !.response = answer]
    /\ UNCHANGED <<calc_vars, fc_vars, obj_vars>>

\* the status test (tempo_client.py lines 59-64, weather_client.py lines
\* 79-84): any status but 200 returns the mock
FetchStatus ==
    /\ fetch.pc = "status"
    /\ fetch' = IF fetch.response.status = 200
                THEN [fetch EXCEPT !.pc = "json"]
                ELSE [fetch EXCEPT !.pc = "returned", !.kind = "fallback",
                                   !.result = mock_of(fetch, hash_seed)]
    /\ UNCHANGED <<calc_vars, fc_vars, obj_vars>>

\* response.json() (tempo_client.py line 60, weather_client.py line 80)
FetchJson ==
    /\ fetch.pc = "json"
    /\ fetch' = IF fetch.response.body.json = "malformed"
                THEN [fetch EXCEPT !.pc = "except", !.exception = "JSONDecodeError"]
                ELSE [fetch EXCEPT !.pc = "process"]
    /\ UNCHANGED <<calc_vars, fc_vars, obj_vars>>

\* the parsed body is processed and returned (tempo_client.py line 61,
\* weather_client.py line 81)
FetchProcess ==
    /\ fetch.pc = "process"
    /\ LET data == fetch.response.body
           exception == IF fetch.client = "ground" THEN openaq_exception(data)
                        ELSE weather_exception(data)
       IN  fetch' = IF exception # ""
                    THEN [fetch EXCEPT !.pc = "except", !.exception = exception]
                    ELSE [fetch EXCEPT !.pc = "returned", !.kind = "real",
                                       !.result = IF fetch.client = "ground"
                                                  THEN process_openaq_data(data)
                                                  ELSE process_weather_data(data)]
    /\ UNCHANGED <<calc_vars, fc_vars, obj_vars>>

\* the handler (tempo_client.py lines 66-68, weather_client.py lines 45-47):
\* an exception it catches is logged and the mock returned, any other leaves
\* the call
FetchExcept ==
    /\ fetch.pc = "except"
    /\ fetch' = IF caught(fetch.exception)
                THEN [fetch EXCEPT !.pc = "returned", !.kind = "fallback",
                                   !.result = mock_of(fetch, hash_seed)]
                ELSE [fetch EXCEPT !.pc = "propagated"]
    /\ UNCHANGED <<calc_vars, fc_vars, obj_vars>>

\* get_current_weather without an API key (weather_client.py line 43)
FetchMock ==
    /\ fetch.pc = "mock"
    /\ fetch' = [fetch EXCEPT !.pc = "returned", !.kind = "fallback",
                              !.result = mock_of(fetch, hash_seed)]
    /\ UNCHANGED <<calc_vars, fc_vars, obj_vars>>

----------------------------------------------------------------------------
(* calculate_aqi on the module-level calculator object (main.py line 34),    *)
(* step by step, several calls under way at once.  A call holds references   *)
(* to the bundles it was given (dictionaries of the caller) and its locals;  *)
(* the object holds aqi_breakpoints.  In floating point the interpolation of *)
(* a given concentration always rounds the same way, an exact half down or   *)
(* up as the build has it: float_tie is that function, one of a family.      *)

MaxCalls == 2

Calls == 1..MaxCalls

RoundingModes == 0..2

\* how the interpolation of a concentration rounds when it is an exact half
float_tie(mode, concentration) ==
    IF mode = 2 THEN (concentration \div 10) % 2 ELSE mode

\* _calculate_pollutant_aqi (lines 118-134) on the tables the object holds
pollutant_aqi_from(breakpoint_tables, pollutant, concentration, tie) ==
    IF pollutant \notin DOMAIN breakpoint_tables THEN 3
    ELSE LET breakpoints == breakpoint_tables[pollutant]
             hits == Matching(breakpoints, concentration)
         IN  IF hits # {}
             THEN Interpolate(breakpoints[Min(hits)], concentration, tie)
             ELSE 500

\* extract_step writing the merged no2 and o3 back into the satellite bundle
extract_step_in_place(tempo_data, ground_data) ==
    LET pollutants == extract_pollutants(tempo_data, ground_data)
    IN  [pollutants |-> pollutants,
         tempo_data |-> IF tempo_data.given
                        THEN [tempo_data EXCEPT !.no2 = pollutants.no2,
                                                !.o3 = pollutants.o3]
                        ELSE tempo_data,
         ground_data |-> ground_data]

\* _extract_pollutants (lines 92-116): the dictionary it builds, and the two
\* bundles as it leaves them (it only reads them)
extract_step(tempo_data, ground_data) ==
    [pollutants |-> extract_pollutants(tempo_data, ground_data),
     tempo_data |-> tempo_data,
     ground_data |-> ground_data]

NoPollutants == [p \in Pollutants |-> None_]

IdleCall == [pc |-> "idle"]

\* the calls checked: nothing given; the example; a zero satellite no2 with a
\* ground no2 and a pm25 whose interpolation is an exact half; a string
\* concentration; a None weather reading
SharedInputs ==
    { [tempo |-> NoTempo, ground |-> NoGround, weather |-> NoWeather],
      [tempo |-> TempoOf(Num(5300)), ground |-> GroundOf(Num(3540), None_),
       weather |-> DefaultWeather],
      [tempo |-> TempoOf(Num(0)),
       ground |-> [GroundOf(Num(540), None_) EXCEPT !.no2 = Num(10000)],
       weather |-> StagnantWeather],
      [tempo |-> TempoOf(Bad), ground |-> NoGround, weather |-> DefaultWeather],
      [tempo |-> TempoOf(Num(5300)), ground |-> NoGround,
       weather |-> [DefaultWeather EXCEPT !.humidity = None_]] }

\* calculate_aqi is called (lines 49-56)
CallEnter(c) ==
    /\ calls[c].pc = "idle"
    /\ \E input \in SharedInputs :
          calls' = [calls EXCEPT ![c] =
                       [pc |-> "extract", given |-> input,
                        tempo_data |-> input.tempo, ground_data |-> input.ground,
                        weather_data |-> input.weather,
                        pollutants |-> NoPollutants, aqi_values |-> EmptyAqi,
                        overall_aqi |-> NotSet, path |-> "pending",
                        ret |-> get_default_aqi]]
    /\ UNCHANGED <<calc_vars, fc_vars, io_vars, tables, rounding>>

\* line 57
CallExtract(c) ==
    /\ calls[c].pc = "extract"
    /\ LET step == extract_step(calls[c].tempo_data, calls[c].ground_data)
       IN  calls' = [calls EXCEPT ![c].pc = "score",
                                  ![c].pollutants = step.pollutants,
                                  ![c].tempo_data = step.tempo_data,
                                  ![c].ground_data = step.ground_data]
    /\ UNCHANGED <<calc_vars, fc_vars, io_vars, tables, rounding>>

\* lines 60-66: the sub-indices, read off self.aqi_breakpoints, and the
\* overall index
CallScore(c) ==
    /\ calls[c].pc = "score"
    /\ LET pollutants == calls[c].pollutants
           aqi_values == [p \in scored_pollutants(pollutants) |->
                             pollutant_aqi_from(tables, p, pollutants[p].v,
                                                float_tie(rounding, pollutants[p].v))]
       IN  calls' = IF scoring_raises(pollutants)
                    THEN [calls EXCEPT ![c].pc = "except"]
                    ELSE [calls EXCEPT ![c].pc = "return",
                                       ![c].aqi_values = aqi_values,
                                       ![c].overall_aqi = overall_of(aqi_values)]
    /\ UNCHANGED <<calc_vars, fc_vars, io_vars, tables, rounding>>

\* lines 69-86: the corrections, the scaling, and the dictionary returned
CallReturn(c) ==
    /\ calls[c].pc = "return"
    /\ LET call == calls[c]
           weather_corrected_aqi ==
               apply_weather_corrections(call.overall_aqi, call.weather_data)
       IN  calls' = IF weather_raises(call.weather_data)
                    THEN [calls EXCEPT ![c].pc = "except"]
                    ELSE [calls EXCEPT
                             ![c].pc = "done",
                             ![c].path = "computed",
                             ![c].ret =
                                 [aqi |-> scale_aqi_to_5(weather_corrected_aqi),
                                  no2 |-> call.pollutants.no2,
                                  o3 |-> call.pollutants.o3,
                                  pm25 |-> call.pollutants.pm25,
                                  pm10 |-> call.pollutants.pm10,
                                  sources |-> get_data_sources(call.tempo_data,
                                                               call.ground_data),
                                  individual_aqi |-> call.aqi_values,
                                  weather_factor |->
                                      calculate_weather_factor(call.weather_data)]]
    /\ UNCHANGED <<calc_vars, fc_vars, io_vars, tables, rounding>>

\* lines 88-90
CallExcept(c) ==
    /\ calls[c].pc = "except"
    /\ calls' = [calls EXCEPT ![c].pc = "done", ![c].path = "default",
                              ![c].ret = get_default_aqi]
    /\ UNCHANGED <<calc_vars, fc_vars, io_vars, tables, rounding>>

----------------------------------------------------------------------------
(* Specifications *)

NoCall == [tempo |-> NoTempo, ground |-> NoGround, weather |-> NoWeather]

NoSub == [pollutant |-> "no2", concentration |-> 0]

\* the forecast generator at rest
FcIdle ==
    /\ ticks = 0
    /\ pc = "idle"
    /\ supplied = FALSE
    /\ passed = NotSupplied
    /\ current_data = NotSupplied
    /\ started = now
    /\ days_ahead = 0
    /\ day_local = NoLocal
    /\ forecast = <<>>

\* no client call under way
FetchIdle == fetch = NoFetch

\* the calculator object as constructed, no call on it under way
ObjIdle ==
    /\ tables = aqi_breakpoints
    /\ calls = <<>>
    /\ rounding = 0

\* a call of calculate_aqi returns
Calculate ==
    /\ ~Returned
    /\ \E tie \in {0, 1} :
          calc_out' = calculate_aqi(calc_in.tempo, calc_in.ground, calc_in.weather, tie)
    /\ UNCHANGED <<calc_in, sub_in, sub_out, fc_vars, io_vars, obj_vars>>

\* an evaluation of _calculate_pollutant_aqi returns
SubIndex ==
    /\ sub_out = NoAqi
    /\ \E tie \in {0, 1} :
          sub_out' = [done |-> TRUE,
                      aqi |-> calculate_pollutant_aqi(sub_in.pollutant,
                                                      sub_in.concentration, tie)]
    /\ UNCHANGED <<calc_in, calc_out, sub_in, fc_vars, io_vars, obj_vars>>

\* calculate_aqi on every call of CalcInputs
InitCalc ==
    /\ calc_in \in CalcInputs
    /\ calc_out = NoResult
    /\ sub_in = NoSub
    /\ sub_out = NoAqi
    /\ now = 0
    /\ hash_seed = 0
    /\ FcIdle
    /\ FetchIdle
    /\ ObjIdle

SpecCalc == InitCalc /\ [][Calculate]_vars

\* _calculate_pollutant_aqi on every input of SubInputs
InitSub ==
    /\ calc_in = NoCall
    /\ calc_out = NoResult
    /\ sub_in \in SubInputs
    /\ sub_out = NoAqi
    /\ now = 0
    /\ hash_seed = 0
    /\ FcIdle
    /\ FetchIdle
    /\ ObjIdle

SpecSub == InitSub /\ [][SubIndex]_vars

\* generate_forecast on every baseline of CurrentInputs, started on every day
\* of StartDays, under every hash seed
InitForecast ==
    /\ calc_in = NoCall
    /\ calc_out = NoResult
    /\ sub_in = NoSub
    /\ sub_out = NoAqi
    /\ now \in StartDays
    /\ hash_seed \in HashSeeds
    /\ FcIdle
    /\ FetchIdle
    /\ ObjIdle

\* one call of a data-acquisition client, under every answer of the network.
\* The call is awaited and the request is bounded by its timeout (10 s), so
\* a call under way always takes its next step.
InitFetch ==
    /\ calc_in = NoCall
    /\ calc_out = NoResult
    /\ sub_in = NoSub
    /\ sub_out = NoAqi
    /\ now = 0
    /\ hash_seed \in HashSeeds
    /\ FcIdle
    /\ FetchIdle
    /\ ObjIdle

NextFetch ==
    \/ FetchCall
    \/ FetchGet
    \/ FetchStatus
    \/ FetchJson
    \/ FetchProcess
    \/ FetchExcept
    \/ FetchMock

SpecFetch == InitFetch /\ [][NextFetch]_vars /\ WF_vars(NextFetch)

\* MaxCalls calls of calculate_aqi on the one calculator object, their steps
\* interleaved in every way
InitShared ==
    /\ calc_in = NoCall
    /\ calc_out = NoResult
    /\ sub_in = NoSub
    /\ sub_out = NoAqi
    /\ now = 0
    /\ hash_seed = 0
    /\ FcIdle
    /\ FetchIdle
    /\ tables = aqi_breakpoints
    /\ calls = [c \in Calls |-> IdleCall]
    /\ rounding \in RoundingModes

NextShared ==
    \E c \in Calls :
        \/ CallEnter(c)
        \/ CallExtract(c)
        \/ CallScore(c)
        \/ CallReturn(c)
        \/ CallExcept(c)

SpecShared == InitShared /\ [][NextShared]_vars

NextForecast == GenerateForecast \/ DayForecast \/ AppendDay \/ Tick

SpecForecast == InitForecast /\ [][NextForecast]_vars

----------------------------------------------------------------------------
(* Claims about calculate_aqi, checked under SpecCalc *)

\* C1: whatever the two bundles and the weather hold (readings present,
\* absent, zero, negative or not numbers; bundles or weather empty or None),
\* the 'aqi' that calculate_aqi returns is one of 1, 2, 3, 4, 5.
C1_AqiInOneToFive == Returned => calc_out.ret.aqi \in {1, 2, 3, 4, 5}

\* a computed result whose corrected index is clamped at 500 and scaled to 5
C1_Witness ==
    /\ Returned
    /\ calc_out.path = "computed"
    /\ calc_in.weather.given
    /\ calc_out.overall_aqi = 500
    /\ calc_out.weather_corrected_aqi = 500
    /\ calc_out.ret.aqi = 5

\* some step of the call raises: a merged concentration is a string, or a
\* weather reading that is there is None or a string
C2_StepFails ==
    \/ \E p \in Pollutants : calc_out.pollutants[p].tag = "bad"
    \/ /\ calc_in.weather.given
       /\ \E f \in {"wind_speed", "temperature", "humidity", "pressure"} :
             calc_in.weather[f].tag \in {"none", "bad"}

\* C2: calculate_aqi always returns, and when a step of the computation
\* fails the result is exactly the default: aqi 3, no sub-indices, sources
\* ['default'], weather_factor 0.5, every pollutant level absent.
C2_FailureGivesDefault ==
    Returned =>
        /\ calc_out.path \in {"computed", "default"}
        /\ C2_StepFails =>
              /\ calc_out.path = "default"
              /\ calc_out.ret.aqi = 3
              /\ calc_out.ret.individual_aqi = EmptyAqi
              /\ calc_out.ret.sources = <<"default">>
              /\ calc_out.ret.weather_factor = 5
              /\ \A p \in {"no2", "o3", "pm25", "pm10"} : calc_out.ret[p] = None_

\* a call with a scorable pm25 whose weather holds a None or string reading
C2_Witness ==
    /\ Returned
    /\ calc_out.pollutants.pm25 = Num(3540)
    /\ calc_in.weather.given
    /\ \E f \in {"humidity", "pressure"} : calc_in.weather[f].tag \in {"none", "bad"}
    /\ calc_out.ret.sources = <<"default">>

\* a reading that is there and is not zero
C6_PresentNonZero(x) == x.tag = "bad" \/ (x.tag = "num" /\ x.v # 0)

\* the entry of a bundle as a reading: absent when the bundle is empty or None
C6_Reading(bundle, key) == IF bundle.given THEN Get(bundle[key]) ELSE None_

\* C6 as claimed: no2 and o3 are the primary reading when it is present and
\* non-zero and otherwise the secondary reading; pm25 and pm10 are the
\* secondary reading; hcho is the primary reading.
C6_MergeAsClaimed ==
    Returned =>
        /\ \A p \in {"no2", "o3"} :
              calc_out.pollutants[p] =
                  IF C6_PresentNonZero(C6_Reading(calc_in.tempo, p))
                  THEN C6_Reading(calc_in.tempo, p)
                  ELSE C6_Reading(calc_in.ground, p)
        /\ calc_out.pollutants.pm25 = C6_Reading(calc_in.ground, "pm25")
        /\ calc_out.pollutants.pm10 = C6_Reading(calc_in.ground, "pm10")
        /\ calc_out.pollutants.hcho = C6_Reading(calc_in.tempo, "hcho")

\* C6, amended: no2 and o3 are the primary reading when it is present and
\* non-zero; otherwise the secondary reading when the secondary bundle is
\* non-empty, and the primary reading as it is (a zero stays zero) when the
\* secondary bundle is empty or None.  pm25 and pm10 are the secondary
\* reading only, hcho the primary reading only.
C6_Merge ==
    Returned =>
        /\ \A p \in {"no2", "o3"} :
              calc_out.pollutants[p] =
                  IF C6_PresentNonZero(C6_Reading(calc_in.tempo, p))
                  THEN C6_Reading(calc_in.tempo, p)
                  ELSE IF calc_in.ground.given
                  THEN C6_Reading(calc_in.ground, p)
                  ELSE C6_Reading(calc_in.tempo, p)
        /\ calc_out.pollutants.pm25 = C6_Reading(calc_in.ground, "pm25")
        /\ calc_out.pollutants.pm10 = C6_Reading(calc_in.ground, "pm10")
        /\ calc_out.pollutants.hcho = C6_Reading(calc_in.tempo, "hcho")

\* a zero satellite no2 replaced by the ground's, beside a satellite pm25 and
\* a ground hcho that are not used
C6_Witness ==
    /\ Returned
    /\ calc_in.tempo.given /\ calc_in.ground.given
    /\ calc_in.tempo.no2 = Num(0)
    /\ calc_in.ground.no2 = Num(10000)
    /\ calc_out.pollutants.no2 = Num(10000)
    /\ calc_in.tempo.pm25 = Num(1500)
    /\ calc_out.pollutants.pm25 = None_
    /\ calc_in.ground.hcho = Num(900)
    /\ calc_out.pollutants.hcho = None_

C9_Example ==
    /\ calc_out.pollutants =
          [no2 |-> Num(5300), o3 |-> None_, hcho |-> None_,
           pm25 |-> Num(3540), pm10 |-> None_]
    /\ calc_in.weather = DefaultWeather

\* C9: merged pollutants {no2 53, o3 absent, pm25 35.4} under weather
\* {wind 5, temperature 20, humidity 50, pressure 1013} give sub-indices
\* no2 50 and pm25 100, an overall index of 100 that the weather correction
\* leaves at 100, and aqi 2.
C9_EndToEnd ==
    Returned /\ C9_Example =>
        /\ calc_out.ret.individual_aqi = [p \in {"no2", "pm25"} |->
                                             IF p = "no2" THEN 50 ELSE 100]
        /\ calc_out.overall_aqi = 100
        /\ calc_out.weather_corrected_aqi = 100
        /\ calc_out.ret.aqi = 2

\* the example's call has returned, its readings coming from the two bundles
C9_Witness ==
    /\ Returned
    /\ C9_Example
    /\ calc_in.tempo.no2 = Num(5300)
    /\ calc_in.ground.pm25 = Num(3540)
    /\ calc_out.path = "computed"

\* C10: with both bundles and the weather empty or None, calculate_aqi
\* returns aqi 1 and no sub-indices: the overall index defaults to 3 and goes
\* through the scale mapping.
C10_NothingGiven ==
    Returned /\ ~calc_in.tempo.given /\ ~calc_in.ground.given /\ ~calc_in.weather.given =>
        /\ calc_out.path = "computed"
        /\ calc_out.ret.individual_aqi = EmptyAqi
        /\ calc_out.overall_aqi = 3
        /\ calc_out.weather_corrected_aqi = 3
        /\ calc_out.ret.aqi = 1

\* the call with nothing given has returned
C10_Witness ==
    /\ Returned
    /\ calc_in = NoCall
    /\ calc_out.ret.aqi = 1

\* wind speeds on both sides of the thresholds 2 and 10
C11_Winds == {0 - 3, 0, 1, 2, 5, 10, 11, 20}

\* the corrected index of the call had its wind speed been `wind`, the overall
\* index and the other readings being those of the call
C11_CorrectedAt(wind) ==
    apply_weather_corrections(calc_out.overall_aqi,
                              [calc_in.weather EXCEPT !.wind_speed = Num(wind)])

\* C11: with the overall index, temperature, humidity and pressure held
\* fixed, the corrected index for a wind speed above 10 is at most that for
\* any wind speed of 10 or less, and the corrected index for a wind speed
\* below 2 is at least that for any wind speed of 2 or more; the scaled
\* indices are ordered the same way.
C11_WindMonotone ==
    Returned /\ calc_out.path = "computed" /\ calc_in.weather.given =>
        LET w == wind_speed_of(calc_in.weather).v
            here == calc_out.weather_corrected_aqi
        IN  \A w2 \in C11_Winds :
                LET there == C11_CorrectedAt(w2)
                IN  /\ (w <= 10 /\ 10 < w2) =>
                          there <= here /\ scale_aqi_to_5(there) <= calc_out.ret.aqi
                    /\ (w2 <= 10 /\ 10 < w) =>
                          here <= there /\ calc_out.ret.aqi <= scale_aqi_to_5(there)
                    /\ (w < 2 /\ 2 <= w2) =>
                          here >= there /\ calc_out.ret.aqi >= scale_aqi_to_5(there)
                    /\ (w2 < 2 /\ 2 <= w) =>
                          there >= here /\ scale_aqi_to_5(there) >= calc_out.ret.aqi

\* a call in still air whose overall index 50 is raised to 65, one scale step
\* above what the same call gives at wind speed 5
C11_Witness ==
    /\ Returned
    /\ calc_in.weather.given
    /\ calc_in.weather.wind_speed = Num(1)
    /\ calc_out.overall_aqi = 50
    /\ calc_out.weather_corrected_aqi = 65
    /\ calc_out.ret.aqi = 2
    /\ scale_aqi_to_5(C11_CorrectedAt(5)) = 1

\* M: the highest of the sub-indices reported, 3 when there is none
C15_M ==
    IF DOMAIN calc_out.ret.individual_aqi = {} THEN 3
    ELSE CHOOSE m \in {calc_out.ret.individual_aqi[p] :
                          p \in DOMAIN calc_out.ret.individual_aqi} :
             \A p \in DOMAIN calc_out.ret.individual_aqi :
                 calc_out.ret.individual_aqi[p] <= m

\* a weather reading of the call, its default standing in for a missing one
C15_Field(f, default) ==
    IF calc_in.weather.given /\ calc_in.weather[f].tag = "num"
    THEN calc_in.weather[f].v
    ELSE default

\* A: the sum of the adjustments that apply
C15_A ==
    LET wind == C15_Field("wind_speed", 5)
        temperature == C15_Field("temperature", 20)
        humidity == C15_Field("humidity", 50)
        pressure == C15_Field("pressure", 1013)
    IN  (IF wind > 10 THEN 0 - 10 ELSE 0) + (IF wind < 2 THEN 15 ELSE 0)
      + (IF temperature > 30 THEN 10 ELSE 0) + (IF temperature < 5 THEN 0 - 5 ELSE 0)
      + (IF humidity > 80 THEN 5 ELSE 0) + (IF humidity < 30 THEN 0 - 5 ELSE 0)
      + (IF pressure < 1000 THEN 10 ELSE 0)

C15_Clamp(x) == IF x < 0 THEN 0 ELSE IF x > 500 THEN 500 ELSE x

C15_Scale(x) ==
    CASE x <= 50 -> 1
      [] 50 < x /\ x <= 100 -> 2
      [] 100 < x /\ x <= 150 -> 3
      [] 150 < x /\ x <= 200 -> 4
      [] OTHER -> 5

\* C15: on the non-failure path the aqi returned is scale(clamp(M + A, 0,
\* 500)): M the highest sub-index (3 when none was computed), A the sum of the
\* adjustments that apply (wind > 10: -10, wind < 2: +15, temperature > 30:
\* +10, temperature < 5: -5, humidity > 80: +5, humidity < 30: -5, pressure <
\* 1000: +10), a missing reading counting as its default (5, 20, 50, 1013)
\* and so adjusting nothing, and scale mapping <= 50 to 1, <= 100 to 2, <= 150
\* to 3, <= 200 to 4 and the rest to 5.
C15_ScaledIndex ==
    Returned /\ calc_out.path = "computed" =>
        /\ calc_out.overall_aqi = C15_M
        /\ calc_out.weather_corrected_aqi = C15_Clamp(C15_M + C15_A)
        /\ calc_out.ret.aqi = C15_Scale(C15_Clamp(C15_M + C15_A))
        /\ \A f \in {"wind_speed", "temperature", "humidity", "pressure"} :
              ~calc_in.weather.given \/ calc_in.weather[f].tag \in {"missing", "num"}

\* overall index 100 under still, humid, low-pressure air with no temperature
\* reading: 100 + 15 + 5 + 10 = 130, scaled to 3
C15_Witness ==
    /\ Returned
    /\ calc_out.path = "computed"
    /\ calc_in.weather.given
    /\ calc_in.weather.temperature = Missing
    /\ calc_in.weather.wind_speed = Num(1)
    /\ calc_in.weather.humidity = Num(81)
    /\ calc_in.weather.pressure = Num(999)
    /\ DOMAIN calc_out.ret.individual_aqi = {"no2", "pm25"}
    /\ calc_out.overall_aqi = 100
    /\ calc_out.weather_corrected_aqi = 130
    /\ calc_out.ret.aqi = 3

\* a reading of the call's weather input, its default standing in for one
\* that is missing or not a number
C19_Field(f, default) ==
    IF calc_in.weather.given /\ calc_in.weather[f].tag = "num"
    THEN calc_in.weather[f].v
    ELSE default

\* 0.5 adjusted by the wind, temperature and humidity of the weather input,
\* in tenths
C19_Factor ==
    LET wind == C19_Field("wind_speed", 5)
        temperature == C19_Field("temperature", 20)
        humidity == C19_Field("humidity", 50)
    IN  5 + (IF wind > 10 THEN 0 - 2 ELSE 0) + (IF wind < 2 THEN 2 ELSE 0)
          + (IF temperature > 30 THEN 1 ELSE 0) + (IF temperature < 5 THEN 0 - 1 ELSE 0)
          + (IF humidity > 80 THEN 1 ELSE 0) + (IF humidity < 30 THEN 0 - 1 ELSE 0)

\* C19 as claimed: the weather_factor of every result is 0.5 adjusted by
\* (wind > 10: -0.2, wind < 2: +0.2, temperature > 30: +0.1, temperature < 5:
\* -0.1, humidity > 80: +0.1, humidity < 30: -0.1) and lies in [0, 1]; it
\* depends on the weather input alone, not on the pollutants or the pressure.
C19_FactorAsClaimed ==
    Returned =>
        /\ calc_out.ret.weather_factor = C19_Factor
        /\ calc_out.ret.weather_factor \in 0..10

\* pressures on both sides of the threshold of the pressure correction
C19_Pressures == {990, 999, 1000, 1013, 1030}

\* C19, amended: on the non-failure path the weather_factor is 0.5 adjusted
\* by (wind > 10: -0.2, wind < 2: +0.2, temperature > 30: +0.1, temperature <
\* 5: -0.1, humidity > 80: +0.1, humidity < 30: -0.1), lies in [0, 1], and is
\* the same whatever the pollutants and the pressure are, while the aqi is
\* scale(clamp(M + A)) of the sub-indices and the additive corrections, the
\* factor not entering it; on the failure path the weather_factor is 0.5
\* whatever the weather is.
C19_FactorInformational ==
    Returned =>
        /\ calc_out.ret.weather_factor \in 0..10
        /\ calc_out.path = "computed" =>
              /\ calc_out.ret.weather_factor = C19_Factor
              /\ calc_in.weather.given =>
                    \A pressure \in C19_Pressures :
                        calculate_weather_factor(
                            [calc_in.weather EXCEPT !.pressure = Num(pressure)])
                        = calc_out.ret.weather_factor
              /\ calc_out.ret.aqi = C15_Scale(C15_Clamp(C15_M + C15_A))
        /\ calc_out.path = "default" => calc_out.ret.weather_factor = 5

\* a computed result under windy, cold, dry, low-pressure air: the factor is
\* 0.5 - 0.2 - 0.1 - 0.1 = 0.1 while the pressure raises the index
C19_Witness ==
    /\ Returned
    /\ calc_out.path = "computed"
    /\ calc_in.weather.given
    /\ calc_in.weather.wind_speed = Num(11)
    /\ calc_in.weather.temperature = Num(4)
    /\ calc_in.weather.humidity = Num(29)
    /\ calc_in.weather.pressure = Num(999)
    /\ calc_out.ret.weather_factor = 1
    /\ calc_out.overall_aqi = 50
    /\ calc_out.weather_corrected_aqi = 40

\* the source ids of the bundles of the call that are non-empty and carry
\* one, the satellite's first
C21_Ids ==
    (IF calc_in.tempo.given /\ calc_in.tempo.source # ""
     THEN <<calc_in.tempo.source>> ELSE <<>>)
    \o (IF calc_in.ground.given /\ calc_in.ground.source # ""
        THEN <<calc_in.ground.source>> ELSE <<>>)

\* C21: every result has a non-empty sources list; on the non-failure path
\* it is the source ids of the non-empty input bundles, satellite then
\* ground, or ['mock_data'] when neither bundle carries a source id; and
\* unless an input bundle itself carries the id 'default', sources is
\* ['default'] exactly on the internal-failure path.
C21_Provenance ==
    Returned =>
        /\ Len(calc_out.ret.sources) >= 1
        /\ calc_out.path = "computed" =>
              calc_out.ret.sources =
                  IF C21_Ids = <<>> THEN <<"mock_data">> ELSE C21_Ids
        /\ calc_out.path = "default" => calc_out.ret.sources = <<"default">>
        /\ (\A i \in DOMAIN C21_Ids : C21_Ids[i] # "default") =>
              (calc_out.ret.sources = <<"default">> => calc_out.path = "default")

\* a computed result naming the satellite's source and then the ground's
C21_Witness ==
    /\ Returned
    /\ calc_out.path = "computed"
    /\ calc_in.tempo.source = "TEMPO_MOCK"
    /\ calc_in.ground.source = "OpenAQ"
    /\ calc_out.ret.sources = <<"TEMPO_MOCK", "OpenAQ">>

\* a computed result whose sources list is ['default'], the id of its
\* satellite bundle
C21_OwnIdReached ==
    /\ Returned
    /\ calc_out.path = "computed"
    /\ calc_out.ret.sources = <<"default">>

----------------------------------------------------------------------------
(* Claims about _calculate_pollutant_aqi, checked under SpecSub *)

\* C7: for each of no2, o3, pm25, pm10 and each of the six brackets of its
\* table, the sub-index of concentration c_low is aqi_low and the sub-index
\* of concentration c_high is aqi_high.
C7_BoundsExact ==
    sub_out.done /\ sub_in.pollutant \in {"no2", "o3", "pm25", "pm10"} =>
        \A i \in 1..6 :
            LET row == aqi_breakpoints[sub_in.pollutant][i]
            IN  /\ sub_in.concentration = row[1] => sub_out.aqi = row[3]
                /\ sub_in.concentration = row[2] => sub_out.aqi = row[4]

\* pm25 35.4, the top of the second bracket, scored 100
C7_Witness ==
    /\ sub_out.done
    /\ sub_in = [pollutant |-> "pm25", concentration |-> 3540]
    /\ sub_out.aqi = 100

\* the rows of the evaluated pollutant's table whose bracket, bounds
\* included, holds the evaluated concentration
C16_Holding ==
    {i \in 1..6 :
        /\ aqi_breakpoints[sub_in.pollutant][i][1] <= sub_in.concentration
        /\ sub_in.concentration <= aqi_breakpoints[sub_in.pollutant][i][2]}

\* C16: for each of no2, o3, pm25, pm10 and every concentration c with 0 < c
\* <= the upper bound of the top bracket, exactly one bracket of the table
\* holds c and the sub-index is the interpolation within it; the sub-index
\* 500 of 'no bracket matched' is produced only for c above the top bracket.
C16_BracketsCover ==
    sub_out.done /\ sub_in.pollutant \in {"no2", "o3", "pm25", "pm10"} =>
        LET rows == aqi_breakpoints[sub_in.pollutant]
            c == sub_in.concentration
        IN  /\ (0 < c /\ c <= rows[6][2]) =>
                  /\ Cardinality(C16_Holding) = 1
                  /\ \E i \in C16_Holding, tie \in {0, 1} :
                        sub_out.aqi = Interpolate(rows[i], c, tie)
            /\ (C16_Holding = {} /\ sub_out.aqi = 500) => c > rows[6][2]

\* C20: for each pollutant with a table the sub-index never decreases as the
\* concentration grows: for 0 < c1 <= c2 the sub-index of c1 is at most that
\* of c2, also when c1 or c2 lies between the upper bound of one bracket and
\* the lower bound of the next.
C20_SubIndexMonotone ==
    sub_out.done /\ sub_in.pollutant \in Tabled /\ sub_in.concentration > 0 =>
        \A c2 \in SubConcentrations(sub_in.pollutant), tie \in {0, 1} :
            c2 > sub_in.concentration =>
                sub_out.aqi <= calculate_pollutant_aqi(sub_in.pollutant, c2, tie)

----------------------------------------------------------------------------
(* Claims about generate_forecast, checked under SpecForecast *)

\* C3: every forecast returned has exactly 7 entries whose dates are
\* consecutive calendar days in ascending order, the first being the day
\* after the day on which generation started, also when the wall clock moves
\* on between the day computations and when days take the fallback path.
C3_ConsecutiveFromTomorrow ==
    pc = "done" =>
        /\ Len(forecast) = 7
        /\ \A i \in 1..7 : forecast[i].date = started + i

\* C4: in every forecast returned, for any current index result supplied
\* (also one whose no2, o3 or pm25 is None) or none, the confidences of days
\* 1..7 never increase with the day, lie in 0.3..1.0, and are 0.9 on day 1
\* and 0.3 on day 7.
C4_ConfidenceDecay ==
    pc = "done" =>
        /\ \A i \in 1..6 : forecast[i + 1].confidence <= forecast[i].confidence
        /\ \A i \in 1..7 : forecast[i].confidence \in 3..10
        /\ forecast[1].confidence = 9
        /\ forecast[7].confidence = 3

\* the values of a default day-forecast: index 3, no2 25, o3 60, pm25 20,
\* weather 20/50/5/1013, confidence 0.5, trend 'stable'
C5_DefaultValues(e) ==
    /\ e.aqi_value = 3
    /\ e.no2_level = 25 * LevelDen
    /\ e.o3_level = 60 * LevelDen
    /\ e.pm25_level = 20 * LevelDen
    /\ e.weather.temperature = 20
    /\ e.weather.humidity = 50
    /\ e.weather.wind_speed = 5
    /\ e.weather.pressure = 1013
    /\ e.confidence = 5
    /\ e.trend = "stable"

\* a step of the generation fails: a base value read from current_data is
\* None or a string, or some day took the fallback path
C5_Fails ==
    \/ \E k \in {"aqi", "no2", "o3", "pm25"} : current_data[k].tag \in {"none", "bad"}
    \/ \E i \in 1..Len(forecast) : forecast[i].path = "default"

\* C5: generate_forecast always returns, and on any internal failure what it
\* returns is 7 default day-forecasts; a failure never yields a forecast
\* that mixes computed days with default days.
C5_FailureGivesSevenDefaults ==
    pc = "done" =>
        /\ Len(forecast) = 7
        /\ C5_Fails => \A i \in 1..7 :
                          forecast[i].path = "default" /\ C5_DefaultValues(forecast[i])
        /\ \A i, j \in 1..7 : forecast[i].path = forecast[j].path

\* a forecast returned for a supplied result whose no2 is None
C5_Witness ==
    /\ pc = "done"
    /\ supplied
    /\ current_data.no2 = None_
    /\ current_data.aqi = Num(5)
    /\ forecast[7].path = "default"

\* W(d): the weather impact of the weather of entry e, within -2..2
C17_W(e) ==
    LET impact == (IF e.weather.temperature > 30 THEN 1 ELSE 0)
                - (IF e.weather.temperature < 5 THEN 1 ELSE 0)
                - (IF e.weather.wind_speed > 10 THEN 1 ELSE 0)
                + (IF e.weather.wind_speed < 2 THEN 1 ELSE 0)
                + (IF e.weather.humidity > 80 THEN 1 ELSE 0)
                - (IF e.weather.humidity < 30 THEN 1 ELSE 0)
    IN  IF impact < 0 - 2 THEN 0 - 2 ELSE IF impact > 2 THEN 2 ELSE impact

\* S(d): +1 when the month of the entry's day is a summer or winter month
C17_S(e) == IF Month(e.date) \in {6, 7, 8, 12, 1, 2} THEN 1 ELSE 0 - 1

\* C17: for a supplied current result with baseline index b in 1..5 (also one
\* whose no2, o3 or pm25 is None), the aqi_value of every day d of the
\* forecast returned is clamp(b + W(d) + S(d) + R(d), 1, 5): W(d) the weather
\* impact of day d's weather, S(d) the seasonal term of the projected month,
\* R(d) in {-1, 0, 1} the term derived from the day offset.
C17_ProjectedIndex ==
    pc = "done" /\ supplied /\ current_data.aqi.tag = "num"
                /\ current_data.aqi.v \in 1..5 =>
        \A d \in 1..7 :
            LET sum == current_data.aqi.v + C17_W(forecast[d]) + C17_S(forecast[d])
                       + random_variation(hash_seed, d)
            IN  /\ random_variation(hash_seed, d) \in {0 - 1, 0, 1}
                /\ forecast[d].aqi_value =
                       (IF sum < 1 THEN 1 ELSE IF sum > 5 THEN 5 ELSE sum)

\* C18: for a supplied baseline index b in 1..5, the trend of every day entry
\* of the forecast returned agrees with the entry's own projected index p:
\* 'worsening' exactly when p > b, 'improving' exactly when p < b, 'stable'
\* exactly when p = b.
C18_TrendAgrees ==
    pc = "done" /\ supplied /\ current_data.aqi.tag = "num"
                /\ current_data.aqi.v \in 1..5 =>
        \A d \in 1..7 :
            /\ forecast[d].trend = "worsening" <=> forecast[d].aqi_value > current_data.aqi.v
            /\ forecast[d].trend = "improving" <=> forecast[d].aqi_value < current_data.aqi.v
            /\ forecast[d].trend = "stable" <=> forecast[d].aqi_value = current_data.aqi.v

\* the fixed baseline: index 3, no2 25, o3 60, pm25 20
C13_Fixed ==
    [given |-> TRUE, aqi |-> Num(3), no2 |-> Num(2500), o3 |-> Num(6000),
     pm25 |-> Num(2000)]

\* a value of a baseline, the default standing in for a key it does not hold
C13_Base(x, default) == IF x.tag = "num" THEN x.v ELSE default

\* entry d of the forecast is computed from the baseline `base`: its levels
\* are the base levels adjusted for the entry's weather, its index is the base
\* index plus the day's terms, and its trend compares its index with the
\* base index
C13_DayFrom(base, d) ==
    LET e == forecast[d]
        b == C13_Base(base.aqi, 3)
        levels == generate_pollutant_forecasts(
                      C13_Base(base.no2, 2500), C13_Base(base.o3, 6000),
                      C13_Base(base.pm25, 2000), e.weather)
    IN  /\ e.no2_level = levels.no2
        /\ e.o3_level = levels.o3
        /\ e.pm25_level = levels.pm25
        /\ \E season \in {0 - 1, 1} :
              e.aqi_value = Max({1, Min({5, b + calculate_weather_impact(e.weather)
                                            + season + random_variation(hash_seed, d)})})
        /\ e.trend = calculate_trend(b, e.aqi_value)

\* C13: called without a current index result, generate_forecast works from
\* the fixed baseline (index 3, no2 25, o3 60, pm25 20) on all 7 days, and
\* calls neither the Index Calculator nor a data-acquisition client; called
\* with one, it works from that result on all 7 days.
C13_Baseline ==
    /\ pc # "idle" =>
          /\ calc_out = NoResult
          /\ fetch = NoFetch
          /\ ~supplied => current_data = C13_Fixed
          /\ supplied => current_data = passed
    /\ pc = "done" =>
          /\ ~supplied =>
                \A d \in 1..7 :
                    forecast[d].path = "computed" /\ C13_DayFrom(C13_Fixed, d)
          /\ supplied =>
                \A d \in 1..7 :
                    forecast[d].path = "computed" => C13_DayFrom(passed, d)

\* a forecast returned for a call without a current result, whose first day
\* moves off the baseline index 3
C13_Witness ==
    /\ pc = "done"
    /\ ~supplied
    /\ passed = NotSupplied
    /\ Len(forecast) = 7
    /\ forecast[1].path = "computed"
    /\ forecast[1].aqi_value # 3
    /\ forecast[1].trend # "stable"

----------------------------------------------------------------------------
(* Claims about the data-acquisition clients, checked under SpecFetch *)

\* the fetch failed: the request raised, the status was not 200, or the body
\* could not be parsed or processed
C14_Failed ==
    \/ fetch.exception # ""
    \/ fetch.response.status \notin {0, 200}

\* what a call that has returned handed back: a bundle, real or mock
C14_ReturnsBundle ==
    fetch.pc = "returned" =>
        /\ fetch.result.given
        /\ fetch.kind \in {"real", "fallback"}
        /\ fetch.kind = "real" <=> fetch.result.source \in {"OpenAQ", "OpenWeatherMap"}
        /\ fetch.kind = "fallback" <=>
              fetch.result.source \in {"GROUND_MOCK", "WEATHER_MOCK"}
        /\ fetch.client = "ground" => fetch.result.source \in {"OpenAQ", "GROUND_MOCK"}
        /\ fetch.client = "weather" =>
              fetch.result.source \in {"OpenWeatherMap", "WEATHER_MOCK"}
        /\ C14_Failed => fetch.kind = "fallback"

\* C14: get_ground_measurements and get_current_weather never propagate a
\* fetch failure: on a timeout, a non-200 response or a malformed payload the
\* call returns a bundle (the processed response or the synthesized mock),
\* and every call ends, in exactly one of 'real data returned' and 'fallback
\* returned'.
C14_NeverPropagates ==
    /\ [](fetch.pc # "propagated" /\ C14_ReturnsBundle)
    /\ (fetch.pc \in {"get", "mock"}) ~> (fetch.pc = "returned")

\* a ground call answered 200 with a measurement whose value is null: the
\* averaging raised, and the mock bundle was returned
C14_Witness ==
    /\ fetch.pc = "returned"
    /\ fetch.client = "ground"
    /\ fetch.response.status = 200
    /\ fetch.response.body.json = "dict"
    /\ fetch.exception = "TypeError"
    /\ fetch.kind = "fallback"
    /\ fetch.result.source = "GROUND_MOCK"

----------------------------------------------------------------------------
(* Claims about calls on the shared calculator object, checked under         *)
(* SpecShared                                                                *)

\* call c has returned
C12_Done(c) == calls[c].pc = "done"

\* C12: calculate_aqi is a pure function of its three inputs.  Two calls
\* with identical bundles on the shared calculator object, however their
\* steps interleave with each other's and with other calls', return the same
\* aqi, individual_aqi, pollutant levels, sources and weather_factor, which
\* are those of the call made on its own; no call changes the bundles it was
\* given or the breakpoint tables.
C12_Pure ==
    /\ tables = aqi_breakpoints
    /\ \A c \in Calls :
          calls[c].pc # "idle" =>
              /\ calls[c].tempo_data = calls[c].given.tempo
              /\ calls[c].ground_data = calls[c].given.ground
              /\ calls[c].weather_data = calls[c].given.weather
    /\ \A c \in Calls :
          C12_Done(c) =>
              \E tie \in {0, 1} :
                  LET alone == calculate_aqi(calls[c].given.tempo, calls[c].given.ground,
                                             calls[c].given.weather, tie)
                  IN  calls[c].ret = alone.ret /\ calls[c].path = alone.path
    /\ \A c1, c2 \in Calls :
          C12_Done(c1) /\ C12_Done(c2) /\ calls[c1].given = calls[c2].given =>
              /\ calls[c1].ret = calls[c2].ret
              /\ calls[c1].pollutants = calls[c2].pollutants

\* two calls with the same bundles (a ground no2 standing in for a zero
\* satellite no2, a pm25 whose interpolation is an exact half) have both
\* returned
C12_Witness ==
    /\ C12_Done(1) /\ C12_Done(2)
    /\ calls[1].given = calls[2].given
    /\ calls[1].given.tempo.no2 = Num(0)
    /\ calls[1].pollutants.no2 = Num(10000)
    /\ calls[2].ret.individual_aqi.no2 = 100
    /\ calls[2].ret.individual_aqi.pm25 \in {22, 23}
    /\ calls[1].ret.aqi = calls[2].ret.aqi

====
